---- MODULE Spec2Model ----
(***************************************************************************)
(* Kitchen oven timer (Tiva C, src/main.c): the switch message queue       *)
(* written by GPIOF_Handler and read by the control loop of main, the      *)
(* SysTick millisecond counter, the debounce filter and the display/alarm  *)
(* state machine.                                                          *)
(*                                                                         *)
(* Spec      : the whole program.  dequeue is split at every access of    *)
(*             the volatile FrontQueue / RearQueue, and the two interrupt  *)
(*             handlers may run between any two of these accesses.         *)
(* SpecLoop  : the whole program over the long delays of the state         *)
(*             machine; the handlers do not run inside dequeue.            *)
(* SpecFair  : as SpecLoop, with fewer presses and instants and with the    *)
(*             tick interrupt and the loop kept running.                   *)
(* SpecQueue : enqueue and dequeue run to completion, one after the other  *)
(*             (no preemption inside dequeue).                             *)
(* SpecDay   : as SpecFair, started late in a day: with the alarm time at  *)
(*             23:59 or with the clock time at 23:59.                      *)
(* SpecWrap  : the control loop started a little before CurrentTicks wraps. *)
(* SpecTime  : decrementTime, then incrementTime, on every time of day.    *)
(***************************************************************************)
EXTENDS Integers, Sequences, FiniteSets, TLC

VARIABLES
    CurrentTicks,          \* static volatile int32_t CurrentTicks
    MessageQueue,          \* static msgque_t MessageQueue[MESSAGE_QUEUE_SZ]
    FrontQueue,            \* static volatile int32_t FrontQueue
    RearQueue,             \* static volatile int32_t RearQueue
    pc,                    \* position of main inside the while (1) loop
    now,                   \* int32_t now
    switchPressed,         \* int32_t switchPressed
    switchPressedTime,     \* int32_t switchPressedTime
    lastSwitch1Processed,
    lastSwitch2Processed,
    previousClockTicks,
    previousAlarmTicks,
    previousSW1Ticks,
    ledOnTicks,
    displayState,
    clockHH, clockMM,
    alarmHH, alarmMM,
    led,                   \* bit 1 of GPIOF->DATA (red led)
    uart,                  \* the last string printTime sent to UART0
    iter,                  \* history: what the last loop iteration did
    pending,               \* history: the events enqueue stored and dequeue
                           \*          has not returned yet, oldest first
    presses,               \* history: number of GPIOF_Handler runs since the
                           \*          initial state
    badIndex               \* history: MessageQueue was indexed outside 0..49

queueVars == <<MessageQueue, FrontQueue, RearQueue>>
deqVars   == <<switchPressed, switchPressedTime>>
loopVars  == <<lastSwitch1Processed, lastSwitch2Processed, previousClockTicks,
               previousAlarmTicks, previousSW1Ticks, ledOnTicks, displayState,
               clockHH, clockMM, alarmHH, alarmMM, led, uart, iter>>
vars == <<CurrentTicks, MessageQueue, FrontQueue, RearQueue, pc, now,
          switchPressed, switchPressedTime, lastSwitch1Processed,
          lastSwitch2Processed, previousClockTicks, previousAlarmTicks,
          previousSW1Ticks, ledOnTicks, displayState, clockHH, clockMM,
          alarmHH, alarmMM, led, uart, iter, pending, presses, badIndex>>

----------------------------------------------------------------------------
(* Program constants                                                       *)

CURRENT_HH == 12
CURRENT_MM == 12
DEBOUNCE_TIME == 200
DELAY_TIME_10 == 10000
DELAY_TIME_15 == 15000
DELAY_TIME_60 == 60000
DISPLAY_CLOCK == 0
DISPLAY_ALARM_INIT == 1
DISPLAY_ALARM == 2
MESSAGE_QUEUE_SZ == 50
SW1 == 1
SW2 == 2
NO_SWITCH == -1

(* Bounds of the model                                                     *)

MaxPresses == 3           \* GPIOF_Handler runs explored under Spec
MaxFairPresses == 2       \* GPIOF_Handler runs explored under SpecFair
MaxQueueTicks == 1        \* SysTick runs explored under SpecQueue
MaxSw2 == 1               \* SW2 events pending at a time under SpecQueue
MaxDayPresses == 2        \* GPIOF_Handler runs explored under SpecDay
MaxWrapPresses == 2       \* GPIOF_Handler runs explored under SpecWrap

\* the values of CurrentTicks at which Spec looks at the program: SysTick runs
\* in bursts that end at one of them
RaceInstants == {200, 400}

\* the same for SpecFair
FairInstants == {199, 200, 10199, 10200, 20200}

\* the same for SpecDay: 200 ticks after the 1439th press of SW2 at tick
\* 287800, a minute after either, one and two minutes later; and a minute
\* after the clock has come to 23:59 at tick 42420000
DayInstants == {288000, 347800, 348000, 408000, 468000, 42480000}

\* the same for SpecWrap, counted from its first state, 35790 minutes after
\* line 140: tick 2147400000 + 23547 (60,000 ticks before the next), tick
\* 2147400000 + 60000 (the last minute of the clock before the wrap), tick
\* 2147400000 + 83547 = INT32_MAX - 100, and each delay of the loop counted
\* from the last two, with the tick before it
WrapOffsets == {23547, 60000, 83547, 83746, 83747, 93546, 93547, 98546, 98547,
                119999, 120000, 143546, 143547}

\* the same for SpecLoop
\* (the delays counted from tick 0 and from a press accepted at tick 200, and
\* the tick before some of them)
TickInstants == {199, 200, 400, 10199, 10200, 60000, 60200, 75200, 120000}

----------------------------------------------------------------------------
(* int32_t arithmetic                                                      *)

INT32_MAX == 2147483647
INT32_MIN == -2147483647 - 1

\* a + n (n >= 0) as a two's complement int32_t addition leaves it: CurrentTicks++
Add32(a, n) ==
    IF a > INT32_MAX - n
    THEN INT32_MIN + ((n - (INT32_MAX - a)) - 1)
    ELSE a + n

\* a - b as a two's complement int32_t subtraction leaves it
Sub32(a, b) ==
    IF a >= 0 /\ b < 0 /\ a > INT32_MAX + b
    THEN ((a - INT32_MAX) + ((-1 - b) - INT32_MAX)) - 1
    ELSE IF a < 0 /\ b > 0 /\ a < INT32_MIN + b
    THEN ((a + INT32_MAX) + 1) + (INT32_MAX - b) + 1
    ELSE a - b

\* abs() of <stdlib.h> on an int32_t; abs(INT_MIN) stays INT_MIN on this target
abs(x) == IF x = INT32_MIN THEN INT32_MIN ELSE IF x < 0 THEN -x ELSE x

\* the difference is taken in 64 bits: past the wrap of the counter it is
\* some 2^32 ticks (shown as INT32_MAX, the largest number at hand)
Elapsed_Wide(a, b) ==
    IF a < 0 /\ b > 0 THEN INT32_MAX ELSE abs(Sub32(a, b))

\* abs(a - b) as the loop computes every elapsed time
Elapsed(a, b) == abs(Sub32(a, b))

----------------------------------------------------------------------------
(* Time of day                                                             *)

\* the hour after 23 is not taken back to 0
incrementTime_NoHourWrap(hh, mm) ==
    IF mm + 1 = 60
    THEN <<hh + 1, 0>>
    ELSE <<hh, mm + 1>>

incrementTime(hh, mm) ==
    IF mm + 1 = 60
    THEN <<IF hh + 1 = 24 THEN 0 ELSE hh + 1, 0>>
    ELSE <<hh, mm + 1>>

\* no floor: a minute before 0:00 is 23:59
decrementTime_Wraps(hh, mm) ==
    IF hh = 0 /\ mm = 0 THEN <<23, 59>>
    ELSE IF mm = 0 THEN <<hh - 1, 59>>
    ELSE <<hh, mm - 1>>

decrementTime(hh, mm) ==
    IF hh = 0 /\ mm = 0 THEN <<hh, mm>>
    ELSE IF mm = 0 THEN <<hh - 1, 59>>
    ELSE <<hh, mm - 1>>

Digit(d) == CASE d = 0 -> "0" [] d = 1 -> "1" [] d = 2 -> "2" [] d = 3 -> "3"
              [] d = 4 -> "4" [] d = 5 -> "5" [] d = 6 -> "6" [] d = 7 -> "7"
              [] d = 8 -> "8" [] d = 9 -> "9"

\* sprintf(timeString, "%2d:%02d\r", hh, mm)
printTime(hh, mm) ==
    <<IF hh < 10 THEN " " ELSE Digit(hh \div 10), Digit(hh % 10), ":",
      Digit(mm \div 10), Digit(mm % 10), "\r">>

----------------------------------------------------------------------------
(* The message queue                                                       *)

Msg(sw, t) == [switchPressed |-> sw, switchPressedTime |-> t]

InRange(i) == i \in 0..(MESSAGE_QUEUE_SZ - 1)

\* what a load outside the array may find
Garbage == {Msg(sw, 0) : sw \in {NO_SWITCH, 0, SW1, SW2}}

\* enqueue, line 283: no room behind the write index
QueueFull(r) == r = MESSAGE_QUEUE_SZ - 1

\* the first store forgets to move FrontQueue off -1
EnqueueCursor_NoFrontInit(f, r) == <<f, r + 1>>

\* enqueue, lines 288-295: the indices after a store, <<FrontQueue, RearQueue>>
EnqueueCursor(f, r) == IF f = -1 /\ r = -1 THEN <<0, 0>> ELSE <<f, r + 1>>

\* enqueue, lines 296-297: the entry stored
EnqueueEntry(sw, t) == Msg(sw, t)

enqueue(sw) ==
    IF QueueFull(RearQueue)
    THEN UNCHANGED <<queueVars, pending>>
    ELSE LET c == EnqueueCursor(FrontQueue, RearQueue) IN
         /\ FrontQueue' = c[1]
         /\ RearQueue' = c[2]
         /\ MessageQueue' = [MessageQueue EXCEPT ![c[2]] = EnqueueEntry(sw, CurrentTicks)]
         /\ pending' = Append(pending, Msg(sw, CurrentTicks))

\* dequeue, line 305
QueueEmpty(f, r) == f = -1 /\ r = -1

\* dequeue, lines 312-315: the indices after a load, <<FrontQueue, RearQueue>>
DequeueCursor(f, r) == IF f = r THEN <<-1, -1>> ELSE <<f + 1, r>>

\* dequeue reads at the write index instead of the read index
DequeueResult_ReadsRear(mq, f, r, t) ==
    IF QueueEmpty(f, r)
    THEN [switchPressed |-> NO_SWITCH, switchPressedTime |-> t, empty |-> TRUE,
          MessageQueue |-> mq, cursor |-> <<f, r>>]
    ELSE [switchPressed |-> mq[r].switchPressed,
          switchPressedTime |-> mq[r].switchPressedTime, empty |-> FALSE,
          MessageQueue |-> [mq EXCEPT ![r].switchPressed = NO_SWITCH],
          cursor |-> DequeueCursor(f, r)]

\* dequeue run to completion on the queue <<mq, f, r>>: what it returns (the
\* caller's switchPressedTime is t before the call) and the queue it leaves
DequeueResult(mq, f, r, t) ==
    IF QueueEmpty(f, r)
    THEN [switchPressed |-> NO_SWITCH, switchPressedTime |-> t, empty |-> TRUE,
          MessageQueue |-> mq, cursor |-> <<f, r>>]
    ELSE [switchPressed |-> mq[f].switchPressed,
          switchPressedTime |-> mq[f].switchPressedTime, empty |-> FALSE,
          MessageQueue |-> [mq EXCEPT ![f].switchPressed = NO_SWITCH],
          cursor |-> DequeueCursor(f, r)]

\* the effect of an unpreempted dequeue with result d on the queue
DequeueQueue(d) ==
    /\ MessageQueue' = d.MessageQueue
    /\ FrontQueue' = d.cursor[1]
    /\ RearQueue' = d.cursor[2]
    /\ pending' = IF d.empty \/ pending = <<>> THEN pending ELSE Tail(pending)

dequeue ==
    LET d == DequeueResult(MessageQueue, FrontQueue, RearQueue, switchPressedTime) IN
    /\ switchPressed' = d.switchPressed
    /\ switchPressedTime' = d.switchPressedTime
    /\ DequeueQueue(d)

\* the entries of the queue <<mq, f, r>> that dequeue has yet to return, oldest
\* first; indices that do not delimit a part of the array give a marker entry
Content(mq, f, r) ==
    IF QueueEmpty(f, r) THEN <<>>
    ELSE IF InRange(f) /\ InRange(r) /\ f <= r
    THEN [i \in 1..((r - f) + 1) |-> mq[(f + i) - 1]]
    ELSE <<Msg(NO_SWITCH, -1)>>

QueueContent == Content(MessageQueue, FrontQueue, RearQueue)

----------------------------------------------------------------------------
(* Interrupt handlers                                                      *)

\* n consecutive runs of SysTick_Handler
SysTick_Handler(n) ==
    /\ CurrentTicks' = Add32(CurrentTicks, n)
    /\ UNCHANGED <<queueVars, pc, deqVars, now, loopVars, pending, badIndex>>

GPIOF_Handler(sw) ==
    /\ enqueue(sw)
    /\ UNCHANGED <<CurrentTicks, pc, deqVars, now, loopVars, badIndex>>

----------------------------------------------------------------------------
(* main: the while (1) loop.  dequeue is inlined at its call (line 145)    *)
(* and split at the accesses of the shared indices.  Once the test of line *)
(* 305 has let dequeue through, enqueue cannot change FrontQueue (it does  *)
(* so only when both indices are -1, and RearQueue is then not -1 and only *)
(* grows), so each later load of FrontQueue is taken together with the     *)
(* access that uses it.                                                    *)

\* line 143, and line 304 of dequeue
Loop_L143 ==
    /\ pc = "L143"
    /\ now' = CurrentTicks
    /\ switchPressed' = NO_SWITCH
    /\ pc' = "L305a"
    /\ UNCHANGED <<CurrentTicks, queueVars, switchPressedTime, loopVars, pending, presses, badIndex>>

\* line 305, left operand of &&: load FrontQueue
Dequeue_L305a ==
    /\ pc = "L305a"
    /\ pc' = IF FrontQueue = -1 THEN "L305b" ELSE "L308"
    /\ UNCHANGED <<CurrentTicks, queueVars, deqVars, now, loopVars, pending, presses, badIndex>>

\* line 305, right operand of &&: load RearQueue; line 306: return
Dequeue_L305b ==
    /\ pc = "L305b"
    /\ pc' = IF RearQueue = -1 THEN "L147" ELSE "L308"
    /\ UNCHANGED <<CurrentTicks, queueVars, deqVars, now, loopVars, pending, presses, badIndex>>

\* line 308
Dequeue_L308 ==
    /\ pc = "L308"
    /\ \E m \in (IF InRange(FrontQueue) THEN {MessageQueue[FrontQueue]} ELSE Garbage) :
           switchPressed' = m.switchPressed
    /\ badIndex' = (badIndex \/ ~InRange(FrontQueue))
    /\ pc' = "L309"
    /\ UNCHANGED <<CurrentTicks, queueVars, switchPressedTime, now, loopVars,
                   pending, presses>>

\* line 309
Dequeue_L309 ==
    /\ pc = "L309"
    /\ \E m \in (IF InRange(FrontQueue) THEN {MessageQueue[FrontQueue]} ELSE Garbage) :
           switchPressedTime' = m.switchPressedTime
    /\ badIndex' = (badIndex \/ ~InRange(FrontQueue))
    /\ pc' = "L311"
    /\ UNCHANGED <<CurrentTicks, queueVars, switchPressed, now, loopVars,
                   pending, presses>>

\* line 311; a store outside the array leaves the array as it is
Dequeue_L311 ==
    /\ pc = "L311"
    /\ MessageQueue' = IF InRange(FrontQueue)
                       THEN [MessageQueue EXCEPT ![FrontQueue].switchPressed = NO_SWITCH]
                       ELSE MessageQueue
    /\ badIndex' = (badIndex \/ ~InRange(FrontQueue))
    /\ pending' = IF pending = <<>> THEN pending ELSE Tail(pending)
    /\ pc' = "L312"
    /\ UNCHANGED <<CurrentTicks, FrontQueue, RearQueue, deqVars, now, loopVars,
                   presses>>

\* line 312: load both indices and compare
Dequeue_L312 ==
    /\ pc = "L312"
    /\ pc' = IF FrontQueue = RearQueue THEN "L313" ELSE "L315"
    /\ UNCHANGED <<CurrentTicks, queueVars, deqVars, now, loopVars, pending, presses, badIndex>>

\* line 313, FrontQueue = RearQueue = -1: the two stores are unsequenced
Dequeue_L313 ==
    /\ pc = "L313"
    /\ \/ RearQueue' = -1 /\ pc' = "L313f" /\ UNCHANGED FrontQueue
       \/ FrontQueue' = -1 /\ pc' = "L313r" /\ UNCHANGED RearQueue
    /\ UNCHANGED <<CurrentTicks, MessageQueue, deqVars, now, loopVars, pending, presses, badIndex>>

\* line 313, the store to FrontQueue after the one to RearQueue
Dequeue_L313f ==
    /\ pc = "L313f"
    /\ FrontQueue' = -1
    /\ pc' = "L147"
    /\ UNCHANGED <<CurrentTicks, MessageQueue, RearQueue, deqVars, now, loopVars,
                   pending, presses, badIndex>>

\* line 313, the store to RearQueue after the one to FrontQueue
Dequeue_L313r ==
    /\ pc = "L313r"
    /\ RearQueue' = -1
    /\ pc' = "L147"
    /\ UNCHANGED <<CurrentTicks, MessageQueue, FrontQueue, deqVars, now, loopVars,
                   pending, presses, badIndex>>

\* line 315
Dequeue_L315 ==
    /\ pc = "L315"
    /\ FrontQueue' = FrontQueue + 1
    /\ pc' = "L147"
    /\ UNCHANGED <<CurrentTicks, MessageQueue, RearQueue, deqVars, now, loopVars,
                   pending, presses, badIndex>>

DequeueStep ==
    \/ Dequeue_L305a \/ Dequeue_L305b \/ Dequeue_L308 \/ Dequeue_L309
    \/ Dequeue_L311 \/ Dequeue_L312 \/ Dequeue_L313 \/ Dequeue_L313f
    \/ Dequeue_L313r \/ Dequeue_L315

----------------------------------------------------------------------------
(* main, lines 147-254: the rest of one loop iteration.  It reads and      *)
(* writes only locals of main and the led bit, which no handler touches.   *)

\* a rejected event is recorded as the last one processed all the same
Debounce_RecordsRejected(sw, t, last1, last2) ==
    IF sw = SW1
    THEN <<IF Elapsed(t, last1) < DEBOUNCE_TIME THEN NO_SWITCH ELSE sw, t, last2>>
    ELSE IF sw = SW2
    THEN <<IF Elapsed(t, last2) < DEBOUNCE_TIME THEN NO_SWITCH ELSE sw, last1, t>>
    ELSE <<sw, last1, last2>>

\* lines 148-169: the event after the debounce filter, and the two
\* lastSwitchNProcessed; <<switchPressed, lastSwitch1Processed, lastSwitch2Processed>>
Debounce(sw, t, last1, last2) ==
    IF sw = SW1
    THEN IF Elapsed(t, last1) < DEBOUNCE_TIME
         THEN <<NO_SWITCH, last1, last2>>
         ELSE <<sw, t, last2>>
    ELSE IF sw = SW2
    THEN IF Elapsed(t, last2) < DEBOUNCE_TIME
         THEN <<NO_SWITCH, last1, last2>>
         ELSE <<sw, last1, t>>
    ELSE <<sw, last1, last2>>

\* the locals the three branches of lines 171-245 work on
Locals == [displayState |-> displayState, alarm |-> <<alarmHH, alarmMM>>,
           clock |-> <<clockHH, clockMM>>, led |-> led, uart |-> uart,
           previousAlarmTicks |-> previousAlarmTicks,
           previousSW1Ticks |-> previousSW1Ticks, ledOnTicks |-> ledOnTicks,
           previousClockTicks |-> previousClockTicks]

\* the alarm timer is not restarted
OnSwitch2_NoRestart(s, n) ==
    LET a == incrementTime(s.alarm[1], s.alarm[2]) IN
    [s EXCEPT !.led = FALSE, !.displayState = DISPLAY_ALARM, !.alarm = a,
              !.uart = printTime(a[1], a[2])]

\* lines 171-180: switchPressed == 2
OnSwitch2(s, n) ==
    LET a == incrementTime(s.alarm[1], s.alarm[2]) IN
    [s EXCEPT !.led = FALSE, !.displayState = DISPLAY_ALARM, !.alarm = a,
              !.uart = printTime(a[1], a[2]), !.previousAlarmTicks = n]

\* the test of the led (line 183) is missing: SW1 always edits the alarm
OnSwitch1_IgnoresLed(s, n) ==
    IF s.alarm = <<0, 0>>
    THEN [s EXCEPT !.displayState = DISPLAY_ALARM_INIT, !.previousSW1Ticks = n,
                   !.uart = printTime(s.alarm[1], s.alarm[2])]
    ELSE IF s.displayState = DISPLAY_ALARM
    THEN LET a == decrementTime(s.alarm[1], s.alarm[2]) IN
         IF a = <<0, 0>>
         THEN [s EXCEPT !.alarm = a, !.displayState = DISPLAY_ALARM_INIT,
                        !.previousSW1Ticks = n, !.uart = printTime(a[1], a[2])]
         ELSE [s EXCEPT !.alarm = a, !.previousAlarmTicks = n,
                        !.uart = printTime(a[1], a[2])]
    ELSE [s EXCEPT !.uart = printTime(s.alarm[1], s.alarm[2])]

\* an alarm decremented to 0:00 by SW1 stays in DISPLAY_ALARM (and fires later)
OnSwitch1_NoArmingAtZero(s, n) ==
    IF s.led
    THEN [s EXCEPT !.led = FALSE]
    ELSE IF s.alarm = <<0, 0>>
    THEN [s EXCEPT !.displayState = DISPLAY_ALARM_INIT, !.previousSW1Ticks = n,
                   !.uart = printTime(s.alarm[1], s.alarm[2])]
    ELSE IF s.displayState = DISPLAY_ALARM
    THEN LET a == decrementTime(s.alarm[1], s.alarm[2]) IN
         [s EXCEPT !.alarm = a, !.previousAlarmTicks = n,
                   !.uart = printTime(a[1], a[2])]
    ELSE [s EXCEPT !.uart = printTime(s.alarm[1], s.alarm[2])]

\* lines 181-211: switchPressed == 1
OnSwitch1(s, n) ==
    IF s.led
    THEN [s EXCEPT !.led = FALSE]
    ELSE IF s.alarm = <<0, 0>>
    THEN [s EXCEPT !.displayState = DISPLAY_ALARM_INIT, !.previousSW1Ticks = n,
                   !.uart = printTime(s.alarm[1], s.alarm[2])]
    ELSE IF s.displayState = DISPLAY_ALARM
    THEN LET a == decrementTime(s.alarm[1], s.alarm[2]) IN
         IF a = <<0, 0>>
         THEN [s EXCEPT !.alarm = a, !.displayState = DISPLAY_ALARM_INIT,
                        !.previousSW1Ticks = n, !.uart = printTime(a[1], a[2])]
         ELSE [s EXCEPT !.alarm = a, !.previousAlarmTicks = n,
                        !.uart = printTime(a[1], a[2])]
    ELSE [s EXCEPT !.uart = printTime(s.alarm[1], s.alarm[2])]

\* the display state is not tested: the ten seconds end any state
ArmingTimeout_AnyState(s, n) ==
    IF Elapsed(n, s.previousSW1Ticks) >= DELAY_TIME_10
    THEN [s EXCEPT !.displayState = DISPLAY_CLOCK,
                   !.uart = printTime(s.clock[1], s.clock[2])]
    ELSE s

\* the ten seconds must be exceeded, not reached
ArmingTimeout_Strict(s, n) ==
    IF s.displayState = DISPLAY_ALARM_INIT /\ Elapsed(n, s.previousSW1Ticks) > DELAY_TIME_10
    THEN [s EXCEPT !.displayState = DISPLAY_CLOCK,
                   !.uart = printTime(s.clock[1], s.clock[2])]
    ELSE s

\* lines 214-218: the ten seconds of DISPLAY_ALARM_INIT are over
ArmingTimeout(s, n) ==
    IF s.displayState = DISPLAY_ALARM_INIT /\ Elapsed(n, s.previousSW1Ticks) >= DELAY_TIME_10
    THEN [s EXCEPT !.displayState = DISPLAY_CLOCK,
                   !.uart = printTime(s.clock[1], s.clock[2])]
    ELSE s

\* the alarm timer is not restarted after a minute of the countdown
AlarmMinute_NoRestart(s, n) ==
    IF s.displayState = DISPLAY_ALARM /\ Elapsed(n, s.previousAlarmTicks) >= DELAY_TIME_60
    THEN LET a == decrementTime(s.alarm[1], s.alarm[2]) IN
         IF a = <<0, 0>>
         THEN [s EXCEPT !.alarm = a, !.displayState = DISPLAY_CLOCK, !.led = TRUE,
                        !.ledOnTicks = n, !.uart = printTime(s.clock[1], s.clock[2])]
         ELSE [s EXCEPT !.alarm = a, !.uart = printTime(a[1], a[2])]
    ELSE s

\* the alarm fires only when the decrement has brought the alarm time to 0:00
AlarmMinute_FiresOnChange(s, n) ==
    IF s.displayState = DISPLAY_ALARM /\ Elapsed(n, s.previousAlarmTicks) >= DELAY_TIME_60
    THEN LET a == decrementTime(s.alarm[1], s.alarm[2]) IN
         IF a = <<0, 0>> /\ s.alarm # <<0, 0>>
         THEN [s EXCEPT !.alarm = a, !.displayState = DISPLAY_CLOCK, !.led = TRUE,
                        !.ledOnTicks = n, !.uart = printTime(s.clock[1], s.clock[2])]
         ELSE [s EXCEPT !.alarm = a, !.previousAlarmTicks = n,
                        !.uart = printTime(a[1], a[2])]
    ELSE s

\* the alarm that fires prints the alarm time (0:00), not the clock time
AlarmMinute_PrintsAlarm(s, n) ==
    IF s.displayState = DISPLAY_ALARM /\ Elapsed(n, s.previousAlarmTicks) >= DELAY_TIME_60
    THEN LET a == decrementTime(s.alarm[1], s.alarm[2]) IN
         IF a = <<0, 0>>
         THEN [s EXCEPT !.alarm = a, !.displayState = DISPLAY_CLOCK, !.led = TRUE,
                        !.ledOnTicks = n, !.uart = printTime(a[1], a[2])]
         ELSE [s EXCEPT !.alarm = a, !.previousAlarmTicks = n,
                        !.uart = printTime(a[1], a[2])]
    ELSE s

\* lines 220-236: a minute of the alarm countdown is over
AlarmMinute(s, n) ==
    IF s.displayState = DISPLAY_ALARM /\ Elapsed(n, s.previousAlarmTicks) >= DELAY_TIME_60
    THEN LET a == decrementTime(s.alarm[1], s.alarm[2]) IN
         IF a = <<0, 0>>
         THEN [s EXCEPT !.alarm = a, !.displayState = DISPLAY_CLOCK, !.led = TRUE,
                        !.ledOnTicks = n, !.uart = printTime(s.clock[1], s.clock[2])]
         ELSE [s EXCEPT !.alarm = a, !.previousAlarmTicks = n,
                        !.uart = printTime(a[1], a[2])]
    ELSE s

\* the fifteen seconds must be exceeded, not reached
LedTimeout_Strict(s, n) ==
    IF s.led /\ Elapsed(n, s.ledOnTicks) > DELAY_TIME_15
    THEN [s EXCEPT !.led = FALSE]
    ELSE s

\* lines 238-244: the led has been on long enough
LedTimeout(s, n) ==
    IF s.led /\ Elapsed(n, s.ledOnTicks) >= DELAY_TIME_15
    THEN [s EXCEPT !.led = FALSE]
    ELSE s

\* lines 212-245: nothing in MessageQueue
OnNothing(s, n) == LedTimeout(AlarmMinute(ArmingTimeout(s, n), n), n)

\* the new clock time is printed in every display state
ClockMinute_AlwaysPrints(s, n) ==
    IF Elapsed(n, s.previousClockTicks) >= DELAY_TIME_60
    THEN LET c == incrementTime(s.clock[1], s.clock[2]) IN
         [s EXCEPT !.previousClockTicks = n, !.clock = c,
                   !.uart = printTime(c[1], c[2])]
    ELSE s

\* lines 247-254: a minute of the clock is over
ClockMinute(s, n) ==
    IF Elapsed(n, s.previousClockTicks) >= DELAY_TIME_60
    THEN LET c == incrementTime(s.clock[1], s.clock[2]) IN
         [s EXCEPT !.previousClockTicks = n, !.clock = c,
                   !.uart = IF s.displayState = DISPLAY_CLOCK
                            THEN printTime(c[1], c[2]) ELSE s.uart]
    ELSE s

\* lines 171-245 for the debounced event sw
Branches(s, sw, n) ==
    IF sw = SW2 THEN OnSwitch2(s, n)
    ELSE IF sw = SW1 THEN OnSwitch1(s, n)
    ELSE OnNothing(s, n)

\* the locals of main become those of s
Assign(s) ==
    /\ displayState' = s.displayState
    /\ alarmHH' = s.alarm[1]
    /\ alarmMM' = s.alarm[2]
    /\ clockHH' = s.clock[1]
    /\ clockMM' = s.clock[2]
    /\ led' = s.led
    /\ uart' = s.uart
    /\ previousAlarmTicks' = s.previousAlarmTicks
    /\ previousSW1Ticks' = s.previousSW1Ticks
    /\ ledOnTicks' = s.ledOnTicks
    /\ previousClockTicks' = s.previousClockTicks

\* lines 147-245 with the event <<sw, t>> that dequeue returned
Body(sw, t) ==
    LET d == Debounce(sw, t, lastSwitch1Processed, lastSwitch2Processed) IN
    /\ switchPressed' = d[1]
    /\ lastSwitch1Processed' = d[2]
    /\ lastSwitch2Processed' = d[3]
    /\ Assign(Branches(Locals, d[1], now))
    /\ iter' = [raw |-> sw, ev |-> d[1], from |-> displayState,
                ledWas |-> led, alarmWas |-> <<alarmHH, alarmMM>>]

\* lines 147-245
LoopBody ==
    /\ pc = "L147"
    /\ Body(switchPressed, switchPressedTime)
    /\ pc' = "L247"
    /\ UNCHANGED <<CurrentTicks, queueVars, switchPressedTime, now, pending,
                   presses, badIndex>>

\* lines 247-254
LoopClock ==
    /\ pc = "L247"
    /\ Assign(ClockMinute(Locals, now))
    /\ pc' = "L143"
    /\ UNCHANGED <<CurrentTicks, queueVars, deqVars, now, lastSwitch1Processed,
                   lastSwitch2Processed, iter, pending, presses, badIndex>>

\* lines 145-245 without a handler running in between
LoopIteration ==
    /\ pc = "L305a"
    /\ LET d == DequeueResult(MessageQueue, FrontQueue, RearQueue, switchPressedTime) IN
       /\ DequeueQueue(d)
       /\ switchPressedTime' = d.switchPressedTime
       /\ Body(d.switchPressed, d.switchPressedTime)
    /\ pc' = "L247"
    /\ UNCHANGED <<CurrentTicks, now, presses, badIndex>>

----------------------------------------------------------------------------
(* The program                                                             *)

\* the state at line 140, with SysTick just started (CurrentTicks still 0)
Init ==
    /\ CurrentTicks = 0
    /\ MessageQueue = [i \in 0..(MESSAGE_QUEUE_SZ - 1) |-> Msg(0, 0)]
    /\ FrontQueue = -1
    /\ RearQueue = -1
    /\ pc = "L143"
    /\ now = 0
    /\ switchPressed = NO_SWITCH
    /\ switchPressedTime = 0
    /\ lastSwitch1Processed = 0
    /\ lastSwitch2Processed = 0
    /\ previousClockTicks = 0
    /\ previousAlarmTicks = 0
    /\ previousSW1Ticks = 0
    /\ ledOnTicks = 0
    /\ displayState = DISPLAY_CLOCK
    /\ clockHH = CURRENT_HH
    /\ clockMM = CURRENT_MM
    /\ alarmHH = 0
    /\ alarmMM = 0
    /\ led = FALSE
    /\ uart = printTime(CURRENT_HH, CURRENT_MM)
    /\ iter = [raw |-> NO_SWITCH, ev |-> NO_SWITCH, from |-> DISPLAY_CLOCK,
               ledWas |-> FALSE, alarmWas |-> <<0, 0>>]
    /\ pending = <<>>
    /\ presses = 0
    /\ badIndex = FALSE

\* SysTick runs until CurrentTicks is one of the given instants
TickTo(instants) ==
    /\ \E t \in instants : t > CurrentTicks /\ SysTick_Handler(t - CurrentTicks)
    /\ UNCHANGED presses

Tick == TickTo(RaceInstants)

Press ==
    /\ presses < MaxPresses
    /\ presses' = presses + 1
    /\ \E sw \in {SW1, SW2} : GPIOF_Handler(sw)

Main ==
    \/ Loop_L143
    \/ DequeueStep
    \/ LoopBody
    \/ LoopClock

Next == Tick \/ Press \/ Main

Spec == Init /\ [][Next]_vars

----------------------------------------------------------------------------
(* The control loop over the long delays: SysTick bursts end between two   *)
(* iterations (an event is never stamped later than the now of the         *)
(* iteration that takes it), and GPIOF_Handler runs before the call of     *)
(* dequeue (a press during the rest of the iteration leaves the same state *)
(* as one right after it).                                                 *)

LoopTick == pc = "L143" /\ TickTo(TickInstants)

LoopPress == pc # "L247" /\ Press

NextLoop == LoopTick \/ LoopPress \/ Loop_L143 \/ LoopIteration \/ LoopClock

SpecLoop == Init /\ [][NextLoop]_vars

----------------------------------------------------------------------------
(* The control loop with the tick interrupt and the loop kept running, for *)
(* what the program does in the end: fewer presses and instants.           *)

FairTick == pc = "L143" /\ TickTo(FairInstants)

FairPress ==
    /\ pc # "L247"
    /\ presses < MaxFairPresses
    /\ presses' = presses + 1
    /\ \E sw \in {SW1, SW2} : GPIOF_Handler(sw)

NextFair == FairTick \/ FairPress \/ Loop_L143 \/ LoopIteration \/ LoopClock

\* SysTick fires every millisecond whatever the loop does; the loop never blocks
LoopFairness ==
    /\ SF_vars(FairTick)
    /\ WF_vars(Loop_L143)
    /\ WF_vars(LoopIteration)
    /\ WF_vars(LoopClock)

SpecFair == Init /\ [][NextFair]_vars /\ LoopFairness

----------------------------------------------------------------------------
(* The queue alone: dequeue is not preempted, and the presses (the edges   *)
(* of a bouncing switch) all come within one millisecond, after at most    *)
(* MaxQueueTicks ticks.                                                    *)

QueueTick ==
    /\ CurrentTicks < MaxQueueTicks
    /\ MessageQueue = [i \in 0..(MESSAGE_QUEUE_SZ - 1) |-> Msg(0, 0)]
    /\ SysTick_Handler(1)
    /\ UNCHANGED <<presses>>

QueuePress ==
    /\ \E sw \in {SW1, SW2} :
          /\ sw = SW2 => Cardinality({i \in DOMAIN pending : pending[i].switchPressed = SW2}) < MaxSw2
          /\ GPIOF_Handler(sw)
    /\ UNCHANGED <<presses>>

QueuePop ==
    /\ dequeue
    /\ UNCHANGED <<CurrentTicks, pc, now, loopVars, presses, badIndex>>

NextQueue == QueueTick \/ QueuePress \/ QueuePop

SpecQueue == Init /\ [][NextQueue]_vars

----------------------------------------------------------------------------
(* The control loop late in a day: after SW2 has been pressed every        *)
(* DEBOUNCE_TIME ticks, a minute short of a whole day of alarm time, or    *)
(* after the clock has run unattended up to 23:59.                         *)

MinutesPerDay == 24 * 60

\* the locals of main at line 140
InitLocals == [displayState |-> DISPLAY_CLOCK, alarm |-> <<0, 0>>,
               clock |-> <<CURRENT_HH, CURRENT_MM>>, led |-> FALSE,
               uart |-> printTime(CURRENT_HH, CURRENT_MM),
               previousAlarmTicks |-> 0, previousSW1Ticks |-> 0,
               ledOnTicks |-> 0, previousClockTicks |-> 0]

\* one round at tick n on the locals p.loc: GPIOF_Handler for SW2 at that
\* tick, then one loop iteration
Sw2Round(p, n) ==
    LET d == Debounce(SW2, n, 0, p.last2) IN
    [loc |-> ClockMinute(Branches(p.loc, d[1], n), n), last2 |-> d[3],
     alarmWas |-> p.loc.alarm, from |-> p.loc.displayState]

\* the rounds i..j on p, round k at tick k * DEBOUNCE_TIME (SysTick has run up
\* to it); they stop at a press that the debounce filter does not accept
RECURSIVE Sw2RoundsOn(_, _, _)
Sw2RoundsOn(p, i, j) ==
    IF i > j THEN p
    ELSE IF i = j THEN Sw2Round(p, i * DEBOUNCE_TIME)
    ELSE LET mid == (i + j) \div 2
             q == Sw2RoundsOn(p, i, mid)
         IN  IF q.last2 = mid * DEBOUNCE_TIME
             THEN Sw2RoundsOn(q, mid + 1, j)
             ELSE q

\* k rounds from line 140
Sw2Rounds(k) ==
    Sw2RoundsOn([loc |-> InitLocals, last2 |-> 0, alarmWas |-> <<0, 0>>,
                 from |-> DISPLAY_CLOCK], 1, k)

\* the iterations i..j on the locals s with nothing in the queue, iteration m
\* at tick m * DELAY_TIME_60; they stop at one that does not count a minute
RECURSIVE IdleRoundsOn(_, _, _)
IdleRoundsOn(s, i, j) ==
    IF i > j THEN s
    ELSE IF i = j
    THEN ClockMinute(Branches(s, NO_SWITCH, i * DELAY_TIME_60), i * DELAY_TIME_60)
    ELSE LET mid == (i + j) \div 2
             q == IdleRoundsOn(s, i, mid)
         IN  IF q.previousClockTicks = mid * DELAY_TIME_60
             THEN IdleRoundsOn(q, mid + 1, j)
             ELSE q

\* m idle minutes from line 140
IdleRounds(m) == IdleRoundsOn(InitLocals, 1, m)

\* the program between two iterations, with the locals s of main, at tick t
Between(s, t) ==
    /\ CurrentTicks = t
    /\ FrontQueue = -1
    /\ RearQueue = -1
    /\ pc = "L143"
    /\ now = t
    /\ lastSwitch1Processed = 0
    /\ displayState = s.displayState
    /\ alarmHH = s.alarm[1]
    /\ alarmMM = s.alarm[2]
    /\ clockHH = s.clock[1]
    /\ clockMM = s.clock[2]
    /\ led = s.led
    /\ uart = s.uart
    /\ previousAlarmTicks = s.previousAlarmTicks
    /\ previousSW1Ticks = s.previousSW1Ticks
    /\ ledOnTicks = s.ledOnTicks
    /\ previousClockTicks = s.previousClockTicks
    /\ pending = <<>>
    /\ badIndex = FALSE

\* the state k SW2 rounds after line 140 (k > 0)
AfterSw2(k) ==
    LET r == Sw2Rounds(k) IN
    /\ Between(r.loc, k * DEBOUNCE_TIME)
    /\ MessageQueue = [i \in 0..(MESSAGE_QUEUE_SZ - 1) |->
                         IF i = 0 THEN Msg(NO_SWITCH, k * DEBOUNCE_TIME) ELSE Msg(0, 0)]
    /\ switchPressed = SW2
    /\ switchPressedTime = k * DEBOUNCE_TIME
    /\ lastSwitch2Processed = r.last2
    /\ iter = [raw |-> SW2, ev |-> SW2, from |-> r.from, ledWas |-> FALSE,
               alarmWas |-> r.alarmWas]
    /\ presses = 0

\* the state m idle minutes after line 140
AfterIdle(m) ==
    /\ Between(IdleRounds(m), m * DELAY_TIME_60)
    /\ MessageQueue = [i \in 0..(MESSAGE_QUEUE_SZ - 1) |-> Msg(0, 0)]
    /\ switchPressed = NO_SWITCH
    /\ switchPressedTime = 0
    /\ lastSwitch2Processed = 0
    /\ iter = [raw |-> NO_SWITCH, ev |-> NO_SWITCH, from |-> DISPLAY_CLOCK,
               ledWas |-> FALSE, alarmWas |-> <<0, 0>>]
    /\ presses = 0

\* the alarm time is 23:59, or the clock time is 23:59
InitDay ==
    \/ AfterSw2(MinutesPerDay - 1)
    \/ AfterIdle(((MinutesPerDay - 1) - (CURRENT_HH * 60)) - CURRENT_MM)

\* SysTick runs up to the next instant once the loop has seen the present one
\* (an iteration takes far less than the millisecond between two ticks)
DayTick ==
    /\ pc = "L143"
    /\ now = CurrentTicks
    /\ \E t \in DayInstants :
          /\ t > CurrentTicks
          /\ \A u \in DayInstants : u > CurrentTicks => t <= u
          /\ SysTick_Handler(t - CurrentTicks)
    /\ UNCHANGED presses

DayPress ==
    /\ pc # "L247"
    /\ presses < MaxDayPresses
    /\ presses' = presses + 1
    /\ \E sw \in {SW1, SW2} : GPIOF_Handler(sw)

NextDay == DayTick \/ DayPress \/ Loop_L143 \/ LoopIteration \/ LoopClock

\* SysTick fires every millisecond whatever the loop does; the loop never blocks
DayFairness ==
    /\ SF_vars(DayTick)
    /\ WF_vars(Loop_L143)
    /\ WF_vars(LoopIteration)
    /\ WF_vars(LoopClock)

SpecDay == InitDay /\ [][NextDay]_vars /\ DayFairness

----------------------------------------------------------------------------
(* The control loop around the wrap of CurrentTicks, 24.8 days after the   *)
(* start.                                                                  *)

\* the minutes the clock has counted when SpecWrap starts
WrapStartMinutes == (INT32_MAX \div DELAY_TIME_60) - 1

WrapStart == WrapStartMinutes * DELAY_TIME_60

InitWrap == AfterIdle(WrapStartMinutes)

\* the ticks SysTick_Handler has counted since WrapStart when CurrentTicks is x
\* (CurrentTicks wraps once)
Offset(x) ==
    IF x >= 0 THEN x - WrapStart
    ELSE ((x - INT32_MIN) + (INT32_MAX - WrapStart)) + 1

\* SysTick runs up to the next instant once the loop has seen the present one
WrapTick ==
    /\ pc = "L143"
    /\ now = CurrentTicks
    /\ \E o \in WrapOffsets :
          /\ o > Offset(CurrentTicks)
          /\ \A u \in WrapOffsets : u > Offset(CurrentTicks) => o <= u
          /\ SysTick_Handler(o - Offset(CurrentTicks))
    /\ UNCHANGED presses

WrapPress ==
    /\ pc # "L247"
    /\ presses < MaxWrapPresses
    /\ presses' = presses + 1
    /\ \E sw \in {SW1, SW2} : GPIOF_Handler(sw)

NextWrap == WrapTick \/ WrapPress \/ Loop_L143 \/ LoopIteration \/ LoopClock

SpecWrap == InitWrap /\ [][NextWrap]_vars

----------------------------------------------------------------------------
(* decrementTime, then incrementTime, on every time of day (in alarmHH and *)
(* alarmMM; iter.alarmWas keeps the time they started from).               *)

InitTime ==
    \E hh \in 0..23, mm \in 0..59 :
       /\ Between([InitLocals EXCEPT !.alarm = <<hh, mm>>], 0)
       /\ MessageQueue = [i \in 0..(MESSAGE_QUEUE_SZ - 1) |-> Msg(0, 0)]
       /\ switchPressed = NO_SWITCH
       /\ switchPressedTime = 0
       /\ lastSwitch2Processed = 0
       /\ iter = [raw |-> NO_SWITCH, ev |-> NO_SWITCH, from |-> DISPLAY_CLOCK,
                  ledWas |-> FALSE, alarmWas |-> <<hh, mm>>]
       /\ presses = 0

\* decrementTime(&alarmHH, &alarmMM)
TimeDecrement ==
    /\ pc = "L143"
    /\ alarmHH' = decrementTime(alarmHH, alarmMM)[1]
    /\ alarmMM' = decrementTime(alarmHH, alarmMM)[2]
    /\ pc' = "decremented"
    /\ UNCHANGED <<CurrentTicks, queueVars, deqVars, now, lastSwitch1Processed,
                   lastSwitch2Processed, previousClockTicks, previousAlarmTicks,
                   previousSW1Ticks, ledOnTicks, displayState, clockHH, clockMM,
                   led, uart, iter, pending, presses, badIndex>>

\* incrementTime(&alarmHH, &alarmMM)
TimeIncrement ==
    /\ pc = "decremented"
    /\ alarmHH' = incrementTime(alarmHH, alarmMM)[1]
    /\ alarmMM' = incrementTime(alarmHH, alarmMM)[2]
    /\ pc' = "incremented"
    /\ UNCHANGED <<CurrentTicks, queueVars, deqVars, now, lastSwitch1Processed,
                   lastSwitch2Processed, previousClockTicks, previousAlarmTicks,
                   previousSW1Ticks, ledOnTicks, displayState, clockHH, clockMM,
                   led, uart, iter, pending, presses, badIndex>>

NextTime == TimeDecrement \/ TimeIncrement

SpecTime == InitTime /\ [][NextTime]_vars

----------------------------------------------------------------------------
(* The queue between the interrupt and the loop                            *)

\* C1: every event enqueue stores is returned by exactly one later dequeue,
\* whatever the point at which GPIOF_Handler preempts dequeue: whenever the loop
\* is between two iterations, the events stored and not yet returned are the
\* entries between FrontQueue and RearQueue, in the order they were stored.
C1_EveryStoredEventIsReturnedOnce ==
    pc = "L143" => QueueContent = pending

\* C2: without preemption dequeue returns the events enqueue stored, oldest
\* first, each with the switch and the tick it was stored with, and -1 when
\* no event is waiting (the queue is then left as it was).
C2_FifoOrder ==
    [][QueuePop =>
         IF pending = <<>>
         THEN switchPressed' = NO_SWITCH /\ UNCHANGED queueVars
         ELSE /\ Msg(switchPressed', switchPressedTime') = Head(pending)
              /\ Content(MessageQueue', FrontQueue', RearQueue') = Tail(pending)]_vars

\* C2 witness: a SW2 event has been returned behind at least two others while
\* more events wait.
C2_Witness ==
    /\ switchPressed = SW2
    /\ switchPressedTime = 1
    /\ FrontQueue >= 3
    /\ Len(pending) >= 2

\* C3: enqueue stores the event whenever fewer than MESSAGE_QUEUE_SZ events are
\* waiting, and drops it only when MESSAGE_QUEUE_SZ are: with fewer waiting,
\* the test of line 283 that sends enqueue to its empty branch is false.
C3_StoredUnlessFiftyPending ==
    Len(pending) < MESSAGE_QUEUE_SZ => ~QueueFull(RearQueue)

\* C4: each index has one writer: GPIOF_Handler (enqueue) never changes
\* FrontQueue, and main (dequeue) never changes RearQueue.
C4_SingleWriterPerIndex ==
    [][/\ Press => FrontQueue' = FrontQueue
       /\ Main => RearQueue' = RearQueue]_vars

\* C5: the queue can be drained and refilled for ever: a press that finds no
\* event waiting is stored, however many events were stored before, and it is
\* the event the next dequeue returns, which leaves the queue empty again.
C5_DrainAndRefill ==
    [][/\ (QueuePress /\ pending = <<>>) =>
             /\ Len(pending') = 1
             /\ Content(MessageQueue', FrontQueue', RearQueue') = pending'
       /\ (QueuePop /\ Len(pending) = 1) =>
             /\ Msg(switchPressed', switchPressedTime') = Head(pending)
             /\ QueueEmpty(FrontQueue', RearQueue')
             /\ pending' = <<>>]_vars

\* C5 witness: the array was used up to its last entry, drained, and the next
\* press is stored at entry 0.
C5_Witness ==
    /\ MessageQueue[MESSAGE_QUEUE_SZ - 1].switchPressed = NO_SWITCH
    /\ FrontQueue = 0
    /\ RearQueue = 0
    /\ Len(pending) = 1
    /\ MessageQueue[0] = Head(pending)

----------------------------------------------------------------------------
(* The debounce filter and the state machine, one loop iteration at a time *)

\* |a - b| on the integers
AbsDiff(a, b) == IF a >= b THEN a - b ELSE b - a

Alarm == <<alarmHH, alarmMM>>
Clock == <<clockHH, clockMM>>

\* the state machine's part of the state as lines 147-245 leave it
AfterIteration ==
    [displayState |-> displayState', alarm |-> <<alarmHH', alarmMM'>>,
     clock |-> <<clockHH', clockMM'>>, led |-> led', uart |-> uart',
     previousAlarmTicks |-> previousAlarmTicks',
     previousSW1Ticks |-> previousSW1Ticks', ledOnTicks |-> ledOnTicks',
     previousClockTicks |-> previousClockTicks']

\* the iteration accepted no event
NoEventAccepted == switchPressed' # SW1 /\ switchPressed' # SW2

\* C6: an event of switch S taken from the queue is rejected iff its tick is
\* less than DEBOUNCE_TIME away from the tick of the last accepted event of S;
\* accepted, it becomes that tick; rejected, it leaves that tick alone and the
\* iteration does what it does with no event; the tick of the other switch is
\* unchanged in both cases.
C6_Debounce ==
    [][LoopIteration =>
         LET sw == iter'.raw
             t  == switchPressedTime'
         IN  /\ sw = SW1 =>
                  /\ lastSwitch2Processed' = lastSwitch2Processed
                  /\ IF AbsDiff(t, lastSwitch1Processed) < 200
                     THEN /\ switchPressed' = NO_SWITCH
                          /\ lastSwitch1Processed' = lastSwitch1Processed
                          /\ AfterIteration = OnNothing(Locals, now)
                     ELSE /\ switchPressed' = SW1
                          /\ lastSwitch1Processed' = t
             /\ sw = SW2 =>
                  /\ lastSwitch1Processed' = lastSwitch1Processed
                  /\ IF AbsDiff(t, lastSwitch2Processed) < 200
                     THEN /\ switchPressed' = NO_SWITCH
                          /\ lastSwitch2Processed' = lastSwitch2Processed
                          /\ AfterIteration = OnNothing(Locals, now)
                     ELSE /\ switchPressed' = SW2
                          /\ lastSwitch2Processed' = t]_vars

\* C6 witness: a SW1 event has just been rejected, after events of both
\* switches were accepted at tick 200.
C6_Witness ==
    /\ pc = "L247"
    /\ iter.raw = SW1
    /\ iter.ev = NO_SWITCH
    /\ lastSwitch1Processed = 200
    /\ lastSwitch2Processed = 200

\* C7: an accepted SW2 event, in any display state and with the led on or off,
\* turns the led off, increments the alarm time, prints it, restarts the alarm
\* timer at the iteration's now and leaves the state DISPLAY_ALARM.
C7_Switch2 ==
    [][(LoopIteration /\ switchPressed' = SW2) =>
         /\ led' = FALSE
         /\ <<alarmHH', alarmMM'>> = incrementTime(alarmHH, alarmMM)
         /\ uart' = printTime(alarmHH', alarmMM')
         /\ previousAlarmTicks' = now
         /\ displayState' = DISPLAY_ALARM]_vars

\* C7 witness: SW2 was accepted in DISPLAY_CLOCK while the led was on.
C7_Witness ==
    /\ pc = "L247"
    /\ iter.ev = SW2
    /\ iter.ledWas
    /\ iter.from = DISPLAY_CLOCK
    /\ displayState = DISPLAY_ALARM
    /\ Alarm = <<0, 1>>

\* C8: an accepted SW1 event in DISPLAY_ALARM with the led off and an alarm
\* time other than 0:00 decrements the alarm time by a minute; at 0:00 the
\* state becomes DISPLAY_ALARM_INIT, the ten seconds restart at the iteration's
\* now and the led stays off; otherwise the state stays DISPLAY_ALARM and the
\* alarm timer restarts at the iteration's now.
C8_Switch1Decrements ==
    [][(/\ LoopIteration
        /\ switchPressed' = SW1
        /\ displayState = DISPLAY_ALARM
        /\ ~led
        /\ Alarm # <<0, 0>>) =>
         /\ <<alarmHH', alarmMM'>> = decrementTime(alarmHH, alarmMM)
         /\ (alarmHH' * 60) + alarmMM' = ((alarmHH * 60) + alarmMM) - 1
         /\ IF <<alarmHH', alarmMM'>> = <<0, 0>>
            THEN /\ displayState' = DISPLAY_ALARM_INIT
                 /\ previousSW1Ticks' = now
                 /\ led' = FALSE
            ELSE /\ displayState' = DISPLAY_ALARM
                 /\ previousAlarmTicks' = now]_vars

\* C8 witness: SW1 has taken the alarm from 0:01 to 0:00 and the state from
\* DISPLAY_ALARM to DISPLAY_ALARM_INIT.
C8_Witness ==
    /\ pc = "L247"
    /\ iter.ev = SW1
    /\ iter.from = DISPLAY_ALARM
    /\ ~iter.ledWas
    /\ iter.alarmWas = <<0, 1>>
    /\ Alarm = <<0, 0>>
    /\ displayState = DISPLAY_ALARM_INIT
    /\ previousSW1Ticks = now

NoFurtherInput == presses = MaxFairPresses /\ pending = <<>>

\* C10: in DISPLAY_ALARM_INIT an iteration that accepts no event leaves the
\* state as it is while fewer than 10,000 ticks have passed since the ten
\* seconds started, and otherwise makes it DISPLAY_CLOCK and prints the clock
\* time; with the tick interrupt and the loop running and no further input,
\* DISPLAY_ALARM_INIT leads to DISPLAY_CLOCK (for the ten seconds that start
\* by tick 10200: the last instant of the model is tick 20200).
C10_ArmingTimeout ==
    /\ [][(LoopIteration /\ displayState = DISPLAY_ALARM_INIT /\ NoEventAccepted) =>
            IF AbsDiff(now, previousSW1Ticks) < 10000
            THEN displayState' = DISPLAY_ALARM_INIT
            ELSE /\ displayState' = DISPLAY_CLOCK
                 /\ uart' = printTime(clockHH', clockMM')]_vars
    /\ (/\ displayState = DISPLAY_ALARM_INIT
        /\ NoFurtherInput
        /\ previousSW1Ticks <= 10200) ~> (displayState = DISPLAY_CLOCK)

\* C10 witness: the ten seconds that started at tick 200 ended at tick 10200.
C10_Witness ==
    /\ pc = "L247"
    /\ iter.from = DISPLAY_ALARM_INIT
    /\ iter.ev = NO_SWITCH
    /\ displayState = DISPLAY_CLOCK
    /\ previousSW1Ticks = 200
    /\ now = 10200
    /\ uart = printTime(clockHH, clockMM)

----------------------------------------------------------------------------
(* The led, the clock and what the display shows                           *)

C13_ClockMinute ==
    [][LoopClock =>
         IF AbsDiff(now, previousClockTicks) >= 60000
         THEN /\ <<clockHH', clockMM'>> = incrementTime(clockHH, clockMM)
              /\ ((clockHH' * 60) + clockMM') = (((clockHH * 60) + clockMM) + 1) % 1440
              /\ previousClockTicks' = now
              /\ uart' = IF displayState = DISPLAY_CLOCK
                         THEN printTime(clockHH', clockMM') ELSE uart
              /\ UNCHANGED <<displayState, alarmHH, alarmMM, led, previousAlarmTicks,
                             previousSW1Ticks, ledOnTicks>>
         ELSE UNCHANGED loopVars]_vars

\* C13 witness: the clock went from 12:12 to 12:13 in an iteration that
\* accepted SW1 in DISPLAY_ALARM, and the display still shows the alarm time.
C13_Witness ==
    /\ pc = "L143"
    /\ iter.ev = SW1
    /\ iter.from = DISPLAY_ALARM
    /\ Clock = <<12, 13>>
    /\ previousClockTicks = now
    /\ now = 60200
    /\ displayState = DISPLAY_ALARM
    /\ uart = printTime(alarmHH, alarmMM)

\* C18: between two iterations, an alarm time other than 0:00 goes with
\* DISPLAY_ALARM; so SW1 is never accepted with the led off and an alarm time
\* other than 0:00 in DISPLAY_CLOCK or DISPLAY_ALARM_INIT.
C18_NonZeroAlarmIsRunning ==
    /\ [](pc = "L143" /\ Alarm # <<0, 0>> => displayState = DISPLAY_ALARM)
    /\ [][(LoopIteration /\ switchPressed' = SW1 /\ ~led /\ Alarm # <<0, 0>>) =>
            displayState = DISPLAY_ALARM]_vars

\* C18 witness: the alarm fired and left 0:00 in DISPLAY_CLOCK after it was
\* 0:01 in DISPLAY_ALARM.
C18_Witness ==
    /\ pc = "L143"
    /\ iter.alarmWas = <<0, 1>>
    /\ iter.from = DISPLAY_ALARM
    /\ Alarm = <<0, 0>>
    /\ displayState = DISPLAY_CLOCK
    /\ led

\* C19: between two iterations the text last printed is the clock time in
\* DISPLAY_CLOCK and the alarm time in DISPLAY_ALARM_INIT and DISPLAY_ALARM.
C19_DisplayMatchesState ==
    pc = "L143" =>
        uart = IF displayState = DISPLAY_CLOCK
               THEN printTime(clockHH, clockMM)
               ELSE printTime(alarmHH, alarmMM)

\* C19 witness: the alarm has fired in the iteration in which the clock's
\* minute was over, and the display shows the new clock time.
C19_Witness ==
    /\ pc = "L143"
    /\ iter.from = DISPLAY_ALARM
    /\ displayState = DISPLAY_CLOCK
    /\ led
    /\ Clock = <<12, 13>>
    /\ previousClockTicks = now
    /\ uart = printTime(12, 13)

----------------------------------------------------------------------------
(* The countdown and the two times of day                                  *)

\* a time of day in minutes
Minutes(t) == (t[1] * 60) + t[2]

\* the countdown's minute is over in an iteration that accepts no event
AlarmMinuteOver ==
    /\ LoopIteration
    /\ displayState = DISPLAY_ALARM
    /\ NoEventAccepted
    /\ AbsDiff(now, previousAlarmTicks) >= 60000

\* what the iteration does once the alarm time is decremented
AlarmMinuteOutcome ==
    IF <<alarmHH', alarmMM'>> = <<0, 0>>
    THEN /\ led'
         /\ ledOnTicks' = now
         /\ uart' = printTime(clockHH, clockMM)
         /\ displayState' = DISPLAY_CLOCK
    ELSE /\ displayState' = DISPLAY_ALARM
         /\ led' = led
         /\ uart' = printTime(alarmHH', alarmMM')
         /\ previousAlarmTicks' = now

\* C11 as stated: in DISPLAY_ALARM an iteration that accepts no event, 60,000
\* ticks or more after the alarm timer started, takes one minute off the alarm
\* time; at 0:00 it turns the led on, records now in ledOnTicks, prints the
\* clock time and makes the state DISPLAY_CLOCK; otherwise it leaves the state
\* and the led, prints the alarm time and restarts the alarm timer at now.
C11_AlarmMinute_Original ==
    [][AlarmMinuteOver =>
         /\ Minutes(<<alarmHH', alarmMM'>>) = Minutes(Alarm) - 1
         /\ AlarmMinuteOutcome]_vars

\* C11 amended: the same, but an alarm time that is already 0:00 (SW2 took it
\* there from 23:59) stays 0:00, and the alarm fires.
C11_AlarmMinute ==
    [][AlarmMinuteOver =>
         /\ <<alarmHH', alarmMM'>> = decrementTime(alarmHH, alarmMM)
         /\ Minutes(<<alarmHH', alarmMM'>>) =
               IF Alarm = <<0, 0>> THEN 0 ELSE Minutes(Alarm) - 1
         /\ AlarmMinuteOutcome]_vars

\* C11 witness: the countdown took 23:59 to 23:58 and restarted the alarm timer.
C11_Witness ==
    /\ pc = "L247"
    /\ iter.from = DISPLAY_ALARM
    /\ iter.ev = NO_SWITCH
    /\ iter.alarmWas = <<23, 59>>
    /\ Alarm = <<23, 58>>
    /\ displayState = DISPLAY_ALARM
    /\ previousAlarmTicks = now
    /\ uart = printTime(23, 58)

\* C14: the clock time and the alarm time are times of day in every state:
\* hours 0..23 and minutes 0..59.
C14_TimesNormalized ==
    /\ clockHH \in 0..23
    /\ clockMM \in 0..59
    /\ alarmHH \in 0..23
    /\ alarmMM \in 0..59

\* C14 witness: SW2 has taken the alarm time from 23:59 to 0:00 and the
\* countdown has then decremented it at 0:00.
C14_Witness ==
    /\ pc = "L143"
    /\ iter.from = DISPLAY_ALARM
    /\ iter.ev = NO_SWITCH
    /\ iter.alarmWas = <<0, 0>>
    /\ Alarm = <<0, 0>>
    /\ led
    /\ displayState = DISPLAY_CLOCK

\* no button is pressed any more and no event waits in the queue
NoFurtherDayInput == presses = MaxDayPresses /\ pending = <<>>

\* C20: in DISPLAY_ALARM an iteration that accepts no event never raises the
\* alarm time, and takes one minute off it when 60,000 ticks have passed and
\* it is not 0:00; with the tick interrupt and the loop running and no further
\* input, DISPLAY_ALARM leads to DISPLAY_CLOCK with the led on, also from the
\* alarm time 0:00 that SW2 made of 23:59 (for the countdowns that the last
\* instant of the model, tick 468000, lets end).
C20_CountdownFires ==
    /\ [][(LoopIteration /\ displayState = DISPLAY_ALARM /\ NoEventAccepted) =>
            Minutes(<<alarmHH', alarmMM'>>) =
               IF AbsDiff(now, previousAlarmTicks) >= 60000 /\ Alarm # <<0, 0>>
               THEN Minutes(Alarm) - 1 ELSE Minutes(Alarm)]_vars
    /\ (/\ displayState = DISPLAY_ALARM
        /\ NoFurtherDayInput
        /\ Minutes(Alarm) <= 2
        /\ previousAlarmTicks <= 348000)
          ~> (displayState = DISPLAY_CLOCK /\ led)

\* C20 witness: the alarm has fired a minute after SW2 took the alarm time from
\* 23:59 to 0:00 at tick 288000.
C20_Witness ==
    /\ pc = "L247"
    /\ iter.from = DISPLAY_ALARM
    /\ iter.ev = NO_SWITCH
    /\ iter.alarmWas = <<0, 0>>
    /\ displayState = DISPLAY_CLOCK
    /\ led
    /\ ledOnTicks = 348000
    /\ lastSwitch2Processed = 288000

\* C15: decrementTime then incrementTime gives back every time of day but
\* 0:00; decrementTime leaves 0:00 as it is (it does not go to 23:59), so
\* the two make 0:01 of 0:00.
C15_IncrementUndoesDecrement ==
    /\ pc = "decremented" /\ iter.alarmWas = <<0, 0>> => Alarm = <<0, 0>>
    /\ pc = "incremented" =>
          Alarm = IF iter.alarmWas = <<0, 0>> THEN <<0, 1>> ELSE iter.alarmWas

\* C15 witness: 1:00 went to 0:59 and came back.
C15_Witness ==
    /\ pc = "incremented"
    /\ iter.alarmWas = <<1, 0>>
    /\ Alarm = <<1, 0>>

----------------------------------------------------------------------------
(* The elapsed times around the wrap of CurrentTicks                       *)

\* the ticks SysTick_Handler has counted between the ticks b and a
TrueElapsed(a, b) == Offset(a) - Offset(b)

\* fewer than 2^31 ticks between b and a
BelowHalfRange(a, b) == Offset(b) >= 0 \/ Offset(a) <= INT32_MAX + Offset(b)

\* C16: with CurrentTicks wrapping from INT32_MAX to INT32_MIN, each of the
\* five delays of the loop ends exactly when that many ticks have been counted,
\* as long as fewer than 2^31 have: the debounce filter rejects an event iff
\* fewer than 200 ticks lie between it and the last accepted one; the ten
\* seconds of DISPLAY_ALARM_INIT end iff 10,000 have passed; the alarm time is
\* decremented (or the alarm fires) iff 60,000 have; the led goes off iff
\* 15,000 have; the clock advances iff 60,000 have.
C16_ElapsedAcrossWrap ==
    [][/\ (LoopIteration /\ iter'.raw = SW1
              /\ BelowHalfRange(switchPressedTime', lastSwitch1Processed)) =>
            ((switchPressed' = NO_SWITCH) <=>
                 (TrueElapsed(switchPressedTime', lastSwitch1Processed) < 200))
       /\ (LoopIteration /\ iter'.raw = SW2
              /\ BelowHalfRange(switchPressedTime', lastSwitch2Processed)) =>
            ((switchPressed' = NO_SWITCH) <=>
                 (TrueElapsed(switchPressedTime', lastSwitch2Processed) < 200))
       /\ (LoopIteration /\ NoEventAccepted /\ displayState = DISPLAY_ALARM_INIT
              /\ BelowHalfRange(now, previousSW1Ticks)) =>
            ((displayState' = DISPLAY_CLOCK) <=>
                 (TrueElapsed(now, previousSW1Ticks) >= 10000))
       /\ (LoopIteration /\ NoEventAccepted /\ displayState = DISPLAY_ALARM
              /\ BelowHalfRange(now, previousAlarmTicks)) =>
            ((<<alarmHH', alarmMM'>> # Alarm \/ displayState' # DISPLAY_ALARM) <=>
                 (TrueElapsed(now, previousAlarmTicks) >= 60000))
       /\ (LoopIteration /\ NoEventAccepted /\ led
              /\ BelowHalfRange(now, ledOnTicks)) =>
            ((~led') <=> (TrueElapsed(now, ledOnTicks) >= 15000))
       /\ (LoopClock /\ BelowHalfRange(now, previousClockTicks)) =>
            ((<<clockHH', clockMM'>> # Clock) <=>
                 (TrueElapsed(now, previousClockTicks) >= 60000))]_vars

\* C16 witness: the alarm fired 100 ticks before the wrap and the led went off
\* 15,000 ticks later, after it.
C16_Witness ==
    /\ pc = "L247"
    /\ iter.ledWas
    /\ iter.ev = NO_SWITCH
    /\ ~led
    /\ ledOnTicks = INT32_MAX - 100
    /\ now = INT32_MIN + 14899

----------------------------------------------------------------------------
(* dequeue preempted by GPIOF_Handler                                      *)

\* C17: wherever GPIOF_Handler preempts dequeue, dequeue indexes MessageQueue
\* inside 0..49 (at lines 308, 309 and 311), and the entry it reads there is
\* an event that enqueue stored and that no dequeue has returned.
C17_DequeueReadsLiveEntry ==
    pc \in {"L308", "L309", "L311"} =>
        /\ InRange(FrontQueue)
        /\ \E i \in DOMAIN pending : pending[i] = MessageQueue[FrontQueue]

====
